---- MODULE Spec2Model ----
(***************************************************************************)
(* Model of the request dispatch engine of smart-fetch (src/src/index.ts): *)
(* Fetcher.dispatch, its inner doRequest and the exponential backoff timer *)
(* `tick` that re-invokes doRequest.                                       *)
(*                                                                         *)
(* One dispatch is the closure created by one call of Fetcher.dispatch:    *)
(* its request, the timer `tick`, the promise's resolve/reject.  The       *)
(* transport (`handle`) is the environment: each call of it ends by        *)
(* returning a value or by throwing a value, chosen from Results.          *)
(***************************************************************************)
EXTENDS Integers, Sequences, FiniteSets, TLC

\* Largest request.retries a dispatch is started with.
MaxRetries == 2
\* Number of dispatches that run concurrently in ConcSpec.
MaxDispatches == 2
\* Largest request.retries of a dispatch in ConcSpec.
MaxConcRetries == 1

\* Largest request.retries of a dispatch in BackoffSpec.
MaxBackoffRetries == 5

\* Number of attempts that go through proxy selection concurrently.
MaxProxyAttempts == 2

\* exponential({ initialDelay: 1000, maxDelay: 5000 })
InitialDelay == 1000
MaxDelay == 5000

DispatchIds == 1..MaxDispatches
AttemptIds == 1..MaxProxyAttempts

\* const RetryableStatuses = [408, 409, 425, 500, 502, 503, 504];
RetryableStatuses == {408, 409, 425, 500, 502, 503, 504}

(***************************************************************************)
(* String(error) is modelled by the set of pattern alternatives that occur *)
(* in it (letter case ignored for the alternatives of UnretryablePattern,  *)
(* which carries the "i" flag).  A text may hold alternatives of both      *)
(* patterns, e.g. "net::ERR_EMPTY_RESPONSE at http://host/enotfound", and  *)
(* none, e.g. "timeout of 30000ms exceeded".                               *)
(***************************************************************************)
\* const HangUpPattern = /net::ERR_EMPTY_RESPONSE|socket hang up/;
HangUpPattern == {"net::ERR_EMPTY_RESPONSE", "socket hang up"}

\* const UnretryablePattern = new RegExp([...].join("|"), "i");
UnretryablePattern ==
    {"ERR_CONNECTION_REFUSED", "ECONNREFUSED",
     "ERR_TOO_MANY_REDIRECTS", "Max redirects",
     "ERR_INTERNET_DISCONNECTED", "ENOTFOUND"}

\* RegExp.prototype.test on a text
Test(pattern, text) == (pattern \cap text) /= {}

(***************************************************************************)
(* Values.  `undefined` stands for every falsy value (undefined, null, 0,  *)
(* ""): the code only tests truthiness, and String() of none of them       *)
(* matches a pattern.                                                      *)
(***************************************************************************)
undefined == [kind |-> "undefined", ok |-> FALSE, status |-> 0,
              text |-> {}, isAxiosError |-> FALSE]

\* A Response object as far as dispatch reads it: response.ok, response.status
Response(ok, status) ==
    [kind |-> "response", ok |-> ok, status |-> status,
     text |-> {}, isAxiosError |-> FALSE]

\* An error object; text models String(error)
ErrorObject(text, isAxiosError) ==
    [kind |-> "error", ok |-> FALSE, status |-> 0,
     text |-> text, isAxiosError |-> isAxiosError]

\* `response || null` on the rejected error
null == [kind |-> "null", ok |-> FALSE, status |-> 0,
         text |-> {}, isAxiosError |-> FALSE]

Truthy(v) == v.kind /= "undefined"

\* The own properties of a thrown error object that doRequest deletes or
\* rewrites: an axios error carries code, config, isAxiosError and toJSON;
\* any other error is taken to carry a code, as Node's system errors do.
PropertiesOf(error) ==
    IF error.isAxiosError
    THEN {"message", "code", "config", "isAxiosError", "toJSON"}
    ELSE {"message", "code"}

(***************************************************************************)
(* A URL or header string is a sequence of segments: literal text, a magic *)
(* variable token, or the digits a token was replaced by.  The clock is in *)
(* milliseconds.  {date}, {date:fmt} and {rand} are left out: they are     *)
(* replaced by the same kind of call as {ts} and {ms}.                     *)
(***************************************************************************)
Lit(text) == [k |-> "lit", s |-> text, n |-> 0]
Tok(name) == [k |-> "tok", s |-> name, n |-> 0]
Num(n) == [k |-> "num", s |-> "", n |-> n]

\* url.replace(/\{ts\}/g, () => String(timestamp()))
\*    .replace(/\{ms\}/g, () => String(Date.now())), at clock value t
resolveMagicVars(url, t) ==
    [i \in 1..Len(url) |->
        IF url[i] = Tok("{ts}") THEN Num(t \div 1000)
        ELSE IF url[i] = Tok("{ms}") THEN Num(t)
        ELSE url[i]]

\* The URLs and referer headers dispatches are started with; <<>> is an
\* absent referer (`if (referer)` is false for undefined and for "").
UrlTemplates ==
    {<<Lit("http://host/path")>>,
     <<Lit("http://host/path?ts="), Tok("{ts}"), Lit("&ms="), Tok("{ms}")>>}

RefererTemplates == {<<>>, <<Lit("http://host?ts="), Tok("{ts}")>>}

\* What a call of Fetcher.dispatch is given besides retries: the magicVars
\* argument, request.url and request.headers.referer.
Configs ==
    [magicVars : BOOLEAN, url : UrlTemplates, referer : RefererTemplates]

\* The one used when several dispatches run concurrently.
ConcConfigs ==
    {[magicVars |-> FALSE, url |-> <<Lit("http://host/path")>>, referer |-> <<>>]}

\* How one call of the transport ends: `await handle(request)` yields
\* `value`, or throws `value`.
Returns(v) == [how |-> "return", value |-> v]
Throws(v) == [how |-> "throw", value |-> v]

\* The responses a transport returns.  Fetcher.makeRequest derives ok from
\* status; a custom handle may return any pair.
Responses ==
    {Response(TRUE, 200), Response(FALSE, 404), Response(FALSE, 503),
     Response(FALSE, 408), Response(TRUE, 503)}

Texts ==
    {{}} \cup {{a} : a \in HangUpPattern \cup UnretryablePattern}
         \cup {{"net::ERR_EMPTY_RESPONSE", "ENOTFOUND"}}

Errors == {ErrorObject(t, ax) : t \in Texts, ax \in BOOLEAN}

\* Every way a transport call ends in Spec: it returns a Response or a
\* falsy value, or throws an error object or a falsy value.
Results ==
    {Returns(r) : r \in Responses \cup {undefined}}
        \cup {Throws(e) : e \in Errors \cup {undefined}}

\* The smaller set used when several dispatches run concurrently.
ConcResults ==
    {Returns(Response(TRUE, 200)), Returns(Response(FALSE, 503)),
     Throws(ErrorObject({"socket hang up"}, TRUE)),
     Throws(ErrorObject({}, TRUE))}

VARIABLES
    pc,          \* pc[d]: where dispatch d is (the states of spec section 4.4)
    request,     \* request[d].retries: the normalized request of dispatch d
    retries,     \* retries[d]: doRequest's local `retries` (the attempt index)
    tick,        \* tick[t]: the backoff timer object t
    inflight,    \* inflight[d]: transport calls of d that have not ended
    calls,       \* calls[d]: transport invocations of d so far
    hist,        \* hist[d]: how the transport calls of d ended, in order
    delays,      \* delays[d]: the delays of the timers d scheduled, in order
    settlements, \* settlements[d]: the resolve/reject calls made on d's promise
    now,         \* the clock, in milliseconds
    magicVars,   \* magicVars[d]: the magicVars argument of dispatch d
    url,         \* url[d]: doRequest's captured `url` (request.url after preparing)
    referer,     \* referer[d]: doRequest's captured `referer`
    sent,        \* sent[d]: the request as handed to the transport, per attempt
    rejected     \* rejected[d]: the error objects passed to reject, as left by doRequest

dispatchVars ==
    <<pc, request, retries, tick, inflight, calls, hist, delays, settlements,
      now, magicVars, url, referer, sent, rejected>>

(***************************************************************************)
(* One call of Fetcher.fetch followed down to the Response it resolves     *)
(* with: Fetcher.request, Fetcher.makeRequest and, in doRequest,           *)
(* fixResponse.  The HTTP exchange, the charset detector, iconv and the    *)
(* parsers are the environment.                                            *)
(***************************************************************************)
VARIABLES
    dpc,           \* where the call is: Fetching, Returned, Threw, Resolved
    options,       \* what the caller passed to fetch, as far as decoding reads it
    res,           \* the AxiosResponse: res.headers, res.data
    env,           \* sysLang and what the charset detector does when called
    resInfo,       \* makeRequest's `resInfo`, the classifier's descriptor
    fetched,       \* what makeRequest returned or threw; after fixResponse, its result
    detectorCalls  \* the charset detectors makeRequest called, in order

decodeVars == <<dpc, options, res, env, resInfo, fetched, detectorCalls>>

(***************************************************************************)
(* Proxy selection: the part of Fetcher.makeRequest before the axios call, *)
(* run by attempts of concurrent dispatches on one Fetcher.                *)
(***************************************************************************)
VARIABLES
    proxyAgents,   \* this.proxyAgents: proxy URL -> agent
    proxied,       \* proxied[a]: attempt a's request.proxy, where it is, its agent
    createdAgents  \* the agents createProxyAgent has made, in order

proxyVars == <<proxyAgents, proxied, createdAgents>>

vars == <<dispatchVars, decodeVars, proxyVars>>

(***************************************************************************)
(* The timer: backoff's Backoff object over an                             *)
(* ExponentialBackoffStrategy (factor 2, no randomisation, no failAfter).  *)
(***************************************************************************)
\* let tick = exponential({ initialDelay: 1000, maxDelay: 5000 })
NewTick ==
    [backoffNumber_ |-> 0, timeoutID_ |-> -1,
     backoffDelay_ |-> 0, nextBackoffDelay_ |-> InitialDelay]

Min(a, b) == IF a <= b THEN a ELSE b

TickBackoffNoCap(t) ==
    LET delay == t.nextBackoffDelay_ IN
    [t EXCEPT !.backoffDelay_ = delay,
              !.nextBackoffDelay_ = delay * 2,
              !.timeoutID_ = 1]

\* tick.backoff(): the strategy's next() delay; the timeout is set
TickBackoff(t) ==
    LET delay == Min(t.nextBackoffDelay_, MaxDelay) IN
    [t EXCEPT !.backoffDelay_ = delay,
              !.nextBackoffDelay_ = delay * 2,
              !.timeoutID_ = 1]

\* tick.reset(): counters cleared, timeout cancelled
TickReset(t) ==
    [t EXCEPT !.backoffNumber_ = 0, !.backoffDelay_ = 0,
              !.nextBackoffDelay_ = InitialDelay, !.timeoutID_ = -1]

\* the timeout fires: emit("ready", backoffNumber_, ...), backoffNumber_++
TickReady(t) ==
    [t EXCEPT !.timeoutID_ = -1, !.backoffNumber_ = t.backoffNumber_ + 1]

\* The timer a dispatch uses: `tick` is a local of the promise executor, so
\* each dispatch has its own.
SharedTick(d) == 1
TickOf(d) == d

(***************************************************************************)
(* doRequest up to `await handle(request)`                                 *)
(***************************************************************************)
SubstituteFromRequest(req, magic, u, r, t) ==
    IF magic
    THEN [req EXCEPT !.url = resolveMagicVars(req.url, t),
                     !.referer = IF r /= <<>> THEN resolveMagicVars(req.referer, t)
                                 ELSE req.referer]
    ELSE req

\* if (magicVars) { request.url = resolveMagicVars(url);
\*                  if (referer) request.headers.referer = resolveMagicVars(referer) }
\* with u and r the captured `url` and `referer`, at clock value t
Substitute(req, magic, u, r, t) ==
    IF magic
    THEN [req EXCEPT !.url = resolveMagicVars(u, t),
                     !.referer = IF r /= <<>> THEN resolveMagicVars(r, t)
                                 ELSE req.referer]
    ELSE req

(***************************************************************************)
(* doRequest after `await handle(request)`                                 *)
(***************************************************************************)
\* try { response = await handle(request) } catch (err) { error = err }
ResponseOf(result) == IF result.how = "return" THEN result.value ELSE undefined
ErrorOf(result) == IF result.how = "throw" THEN result.value ELSE undefined

IsGone(response, error) ==
    ~Truthy(response) /\ Test(HangUpPattern, error.text)

ShouldRetryAnyStatus(response, error, attempt, req) ==
    IF Truthy(response)
    THEN ~response.ok /\ attempt < req.retries
    ELSE IF Test(HangUpPattern, error.text)
    THEN attempt < 1
    ELSE attempt < req.retries /\ ~Test(UnretryablePattern, error.text)

ShouldRetryNoOtherErrors(response, error, attempt, req) ==
    IF Truthy(response)
    THEN ~response.ok /\ attempt < req.retries
            /\ response.status \in RetryableStatuses
    ELSE IF Test(HangUpPattern, error.text)
    THEN attempt < 1
    ELSE FALSE

ShouldRetryLe(response, error, attempt, req) ==
    IF Truthy(response)
    THEN ~response.ok /\ attempt <= req.retries
            /\ response.status \in RetryableStatuses
    ELSE IF Test(HangUpPattern, error.text)
    THEN attempt < 1
    ELSE attempt < req.retries /\ ~Test(UnretryablePattern, error.text)

ShouldRetryIgnoreOk(response, error, attempt, req) ==
    IF Truthy(response)
    THEN attempt < req.retries /\ response.status \in RetryableStatuses
    ELSE IF Test(HangUpPattern, error.text)
    THEN attempt < 1
    ELSE attempt < req.retries /\ ~Test(UnretryablePattern, error.text)

ShouldRetryHangUpBudget(response, error, attempt, req) ==
    IF Truthy(response)
    THEN ~response.ok /\ attempt < req.retries
            /\ response.status \in RetryableStatuses
    ELSE IF Test(HangUpPattern, error.text)
    THEN attempt < req.retries
    ELSE attempt < req.retries /\ ~Test(UnretryablePattern, error.text)

ShouldRetryNoUnretryable(response, error, attempt, req) ==
    IF Truthy(response)
    THEN ~response.ok /\ attempt < req.retries
            /\ response.status \in RetryableStatuses
    ELSE IF Test(HangUpPattern, error.text)
    THEN attempt < 1
    ELSE attempt < req.retries

\* shouldRetry, as the if / else if / else of doRequest sets it
ShouldRetry(response, error, attempt, req) ==
    IF Truthy(response)
    THEN ~response.ok /\ attempt < req.retries
            /\ response.status \in RetryableStatuses
    ELSE IF Test(HangUpPattern, error.text)
    THEN attempt < 1
    ELSE attempt < req.retries /\ ~Test(UnretryablePattern, error.text)

SettleRejectNotOk(response, error) ==
    IF Truthy(error) THEN <<[call |-> "reject", value |-> error]>>
    ELSE IF Truthy(response)
    THEN IF response.ok THEN <<[call |-> "resolve", value |-> response]>>
         ELSE <<[call |-> "reject", value |-> response]>>
    ELSE <<>>

\* The branch `else { tick.reset(); if (error) {...reject(error)} else
\* {resolve(fixResponse(response, request))} }`: the call made on the
\* promise.  fixResponse reads res.data, so it throws a TypeError on a
\* falsy response and doRequest ends without calling resolve or reject.
Settle(response, error) ==
    IF Truthy(error) THEN <<[call |-> "reject", value |-> error]>>
    ELSE IF Truthy(response) THEN <<[call |-> "resolve", value |-> response]>>
    ELSE <<>>

RejectedErrorFirstRequest(error, response, req, u, r) ==
    LET isGone == IsGone(response, error) IN
    [properties |->
        IF error.isAxiosError
        THEN PropertiesOf(error) \ {"code", "config", "isAxiosError", "toJSON"}
        ELSE PropertiesOf(error),
     message |->
        IF error.isAxiosError /\ isGone
        THEN [canonical |-> TRUE, at |-> req.url]
        ELSE [canonical |-> FALSE, at |-> <<>>],
     request |-> [req EXCEPT !.url = u, !.referer = r],
     response |-> IF Truthy(response) THEN response ELSE null]

RejectedErrorKeepMessage(error, response, req, u, r) ==
    [properties |->
        IF error.isAxiosError
        THEN PropertiesOf(error) \ {"code", "config", "isAxiosError", "toJSON"}
        ELSE PropertiesOf(error),
     message |-> [canonical |-> FALSE, at |-> <<>>],
     request |-> req,
     response |-> IF Truthy(response) THEN response ELSE null]

\* The error object as passed to reject: `if (error["isAxiosError"]) {
\* delete error["code"] ...; if (isGone) error.message = "net::ERR_EMPTY_RESPONSE
\* at " + request.url }; error["request"] = request; error["response"] =
\* response || null`.  A message other than the canonical one is the
\* error's own.  u and r are the captured `url` and `referer`.
RejectedError(error, response, req, u, r) ==
    LET isGone == IsGone(response, error) IN
    [properties |->
        IF error.isAxiosError
        THEN PropertiesOf(error) \ {"code", "config", "isAxiosError", "toJSON"}
        ELSE PropertiesOf(error),
     message |->
        IF error.isAxiosError /\ isGone
        THEN [canonical |-> TRUE, at |-> req.url]
        ELSE [canonical |-> FALSE, at |-> <<>>],
     request |-> req,
     response |-> IF Truthy(response) THEN response ELSE null]

\* doRequest from the end of `await handle(request)` to its end, on the
\* timer t: the new pc, the timer, the calls made on the promise and the
\* delay scheduled.  tick.backoff() throws when a timeout is already set.
AfterAttemptRejectEach(result, attempt, req, t) ==
    LET response == ResponseOf(result)
        error == ErrorOf(result)
    IN  IF ShouldRetry(response, error, attempt, req)
        THEN IF t.timeoutID_ /= -1
             THEN [pc |-> "Crashed", tick |-> t, settle |-> <<>>, delay |-> <<>>]
             ELSE [pc |-> "WaitingBackoff", tick |-> TickBackoff(t),
                   settle |-> Settle(response, error),
                   delay |-> <<TickBackoff(t).backoffDelay_>>]
        ELSE LET s == Settle(response, error) IN
             [pc |-> IF s = <<>> THEN "Crashed"
                     ELSE IF s[1].call = "resolve" THEN "Succeeded" ELSE "Failed",
              tick |-> TickReset(t), settle |-> s, delay |-> <<>>]

AfterAttempt(result, attempt, req, t) ==
    LET response == ResponseOf(result)
        error == ErrorOf(result)
    IN  IF ShouldRetry(response, error, attempt, req)
        THEN IF t.timeoutID_ /= -1
             THEN [pc |-> "Crashed", tick |-> t, settle |-> <<>>, delay |-> <<>>]
             ELSE [pc |-> "WaitingBackoff", tick |-> TickBackoff(t),
                   settle |-> <<>>, delay |-> <<TickBackoff(t).backoffDelay_>>]
        ELSE LET s == Settle(response, error) IN
             [pc |-> IF s = <<>> THEN "Crashed"
                     ELSE IF s[1].call = "resolve" THEN "Succeeded" ELSE "Failed",
              tick |-> TickReset(t), settle |-> s, delay |-> <<>>]

(***************************************************************************)
(* Header values and bodies are strings cut into chunks of characters: a   *)
(* string is a sequence of chunks, and the separators the code splits on   *)
(* are chunks of their own.  `void0` is the value undefined (and null) of  *)
(* a string-typed expression; "" is the empty sequence.                    *)
(***************************************************************************)
void0 == <<"void 0">>

\* the truthiness test of `if (x)`, `x || y`, `x && y` on a string
Falsy(str) == str = void0 \/ str = <<>>

\* x || y
Or(x, y) == IF Falsy(x) THEN y ELSE x

\* array[i - 1]: undefined past the end
At(array, i) == IF i <= Len(array) THEN array[i] ELSE void0

\* characters matched by \s, removed by String.prototype.trim and skipped
\* by JSON.parse
Whitespace == {" ", "\n"}

\* str.split(sep) for a one-character separator
RECURSIVE Split(_, _)
Split(str, sep) ==
    IF \E i \in 1..Len(str) : str[i] = sep
    THEN LET i == CHOOSE j \in 1..Len(str) :
                      str[j] = sep /\ \A l \in 1..(j - 1) : str[l] /= sep
         IN <<SubSeq(str, 1, i - 1)>> \o Split(SubSeq(str, i + 1, Len(str)), sep)
    ELSE <<str>>

RECURSIVE SkipWhitespace(_)
SkipWhitespace(str) ==
    IF str /= <<>> /\ str[1] \in Whitespace THEN SkipWhitespace(Tail(str)) ELSE str

\* str.split(/,\s*/)
RECURSIVE SplitComma(_)
SplitComma(str) ==
    IF \E i \in 1..Len(str) : str[i] = ","
    THEN LET i == CHOOSE j \in 1..Len(str) :
                      str[j] = "," /\ \A l \in 1..(j - 1) : str[l] /= ","
         IN <<SubSeq(str, 1, i - 1)>>
                \o SplitComma(SkipWhitespace(SubSeq(str, i + 1, Len(str))))
    ELSE <<str>>

Reverse(str) == [i \in 1..Len(str) |-> str[Len(str) + 1 - i]]

\* str.trim()
trim(str) == Reverse(SkipWhitespace(Reverse(SkipWhitespace(str))))

\* str.includes(sub)
Includes(str, sub) ==
    \E i \in 1..(Len(str) - Len(sub) + 1) : SubSeq(str, i, i + Len(sub) - 1) = sub

(***************************************************************************)
(* A headers object is the sequence of its properties in insertion order,  *)
(* each a name and a string value.                                         *)
(***************************************************************************)
\* name.toLowerCase(), on the header names that occur
toLowerCase(name) ==
    CASE name \in {"Content-Type", "CONTENT-TYPE"} -> "content-type"
      [] name \in {"Accept", "ACCEPT"} -> "accept"
      [] name = "Accept-Language" -> "accept-language"
      [] OTHER -> name

\* headers[name]
Get(headers, name) ==
    IF \E i \in 1..Len(headers) : headers[i].name = name
    THEN headers[CHOOSE i \in 1..Len(headers) : headers[i].name = name].value
    ELSE void0

\* headers[name] = value: an existing property keeps its place
Put(headers, name, value) ==
    IF \E i \in 1..Len(headers) : headers[i].name = name
    THEN [i \in 1..Len(headers) |->
            IF headers[i].name = name THEN [name |-> name, value |-> value]
            ELSE headers[i]]
    ELSE Append(headers, [name |-> name, value |-> value])

\* for (let field in headers) _headers[field.toLowerCase()] = headers[field]
RECURSIVE lowerHeaders(_)
lowerHeaders(headers) ==
    IF headers = <<>> THEN <<>>
    ELSE Put(lowerHeaders(SubSeq(headers, 1, Len(headers) - 1)),
             toLowerCase(headers[Len(headers)].name), headers[Len(headers)].value)

\* getHeader: the first property, in order, whose lower-cased name is the
\* lower-cased field; undefined when there is none
getHeader(headers, field) ==
    LET found == {i \in 1..Len(headers) :
                     toLowerCase(headers[i].name) = toLowerCase(field)}
    IN  IF found = {} THEN void0
        ELSE headers[CHOOSE i \in found : \A j \in found : i <= j].value

\* extractContentType: prefix "/" type ";" parameter, the part of the
\* parameter after its "=" being the charset
extractContentType(contentType) ==
    IF Falsy(contentType)
    THEN [type |-> <<>>, prefix |-> <<>>, charset |-> void0]
    ELSE LET type == Split(contentType, "/")
             pair == Split(At(type, 2), ";")
             charset == Split(At(pair, 2), "=")
         IN  [prefix |-> type[1],
              type |-> IF Falsy(At(type, 2)) THEN <<>> ELSE pair[1],
              charset |-> IF Falsy(At(type, 2)) \/ Falsy(At(pair, 2))
                          THEN void0 ELSE At(charset, 2)]

\* "text/plain; charset=UTF-8"
DefaultContentType ==
    <<"text", "/", "plain", ";", " ", "charset", "=", "UTF-8">>

resolveContentTypeAcceptFirst(resHeaders, reqHeaders) ==
    LET contentType == Or(Get(resHeaders, "content-type"), <<>>)
        accept == getHeader(reqHeaders, "accept")
        acceptType == IF Falsy(accept) THEN accept ELSE SplitComma(accept)[1]
    IN  extractContentType(Or(acceptType, Or(contentType, DefaultContentType)))

\* resolveContentType: resHeaders["content-type"] is read as stored, the
\* request's accept header through getHeader
resolveContentType(resHeaders, reqHeaders) ==
    LET contentType == Or(Get(resHeaders, "content-type"), <<>>)
        accept == getHeader(reqHeaders, "accept")
        acceptType == IF Falsy(accept) THEN accept ELSE SplitComma(accept)[1]
    IN  extractContentType(Or(contentType, Or(acceptType, DefaultContentType)))

(***************************************************************************)
(* The values `data` takes: a string, a parsed JSON value (named by its    *)
(* canonical JSON text), a Buffer (the text its bytes encode and the       *)
(* encoding they are in) or, when thrown, an error with its message.       *)
(***************************************************************************)
Str(str) == [kind |-> "string", s |-> str, enc |-> ""]
Json(kind, literal) == [kind |-> kind, s |-> <<literal>>, enc |-> ""]
Buffer(enc, str) == [kind |-> "buffer", s |-> str, enc |-> enc]
TypeError(message) == [kind |-> "error", s |-> message, enc |-> ""]

\* how a call ends: it returns `value` or throws `value`
Return(value) == [how |-> "return", value |-> value]
Throw(value) == [how |-> "throw", value |-> value]

Quote == "\""

\* JSON texts of the objects, arrays, numbers and keywords that occur
ObjectLiterals == {"{\"a\":1}", "{\"foo\":\"Hello\"}"}
ArrayLiterals == {"[1,2]"}
NumberLiterals == {"123"}
BooleanLiterals == {"true", "false"}

\* the escaping of a chunk inside a JSON string, and its inverse
Escape(chunk) ==
    CASE chunk = Quote -> "\\\""
      [] chunk = "\n" -> "\\n"
      [] chunk = "{\"a\":1}" -> "{\\\"a\\\":1}"
      [] OTHER -> chunk

Unescape(chunk) ==
    CASE chunk = "\\\"" -> Quote
      [] chunk = "\\n" -> "\n"
      [] chunk = "{\\\"a\\\":1}" -> "{\"a\":1}"
      [] OTHER -> chunk

\* JSON.stringify(value)
JSONstringify(value) ==
    IF value.kind = "string"
    THEN <<Quote>> \o [i \in 1..Len(value.s) |-> Escape(value.s[i])] \o <<Quote>>
    ELSE value.s

SyntaxError == [kind |-> "error", s |-> <<"Unexpected token">>, enc |-> ""]

\* JSON.parse(str): whitespace around the value is skipped; a string is a
\* pair of quotes around escaped chunks
JSONparse(str) ==
    LET core == trim(str) IN
    IF Len(core) = 1 /\ core[1] \in ObjectLiterals
    THEN Return(Json("object", core[1]))
    ELSE IF Len(core) = 1 /\ core[1] \in ArrayLiterals
    THEN Return(Json("array", core[1]))
    ELSE IF Len(core) = 1 /\ core[1] \in NumberLiterals
    THEN Return(Json("number", core[1]))
    ELSE IF Len(core) = 1 /\ core[1] \in BooleanLiterals
    THEN Return(Json("boolean", core[1]))
    ELSE IF core = <<"null">>
    THEN Return(Json("null", "null"))
    ELSE IF /\ Len(core) >= 2 /\ core[1] = Quote /\ core[Len(core)] = Quote
            /\ \A i \in 2..(Len(core) - 1) : core[i] \notin {Quote, "\n"}
    THEN Return(Str([i \in 1..(Len(core) - 2) |-> Unescape(core[i + 1])]))
    ELSE Throw(SyntaxError)

\* parseXML(xml): xml2js with explicitRoot and explicitArray off
parseXML(xml) ==
    IF trim(xml) = <<"<r><foo>Hello</foo></r>">>
    THEN Return(Json("object", "{\"foo\":\"Hello\"}"))
    ELSE Throw([kind |-> "error", s |-> <<"Non-whitespace before first tag">>,
                enc |-> ""])

\* chunks of characters outside ASCII, and what decoding their bytes in
\* another encoding gives
NonAscii == {"[CJK]"}
Garbled == "[U+FFFD]"

\* iconv-lite's codec for an encoding name; "" when it has none
Codec(charset) ==
    CASE charset \in {<<"utf-8">>, <<"UTF-8">>, <<"utf8">>} -> "utf8"
      [] charset \in {<<"gbk">>, <<"GB2312">>, <<"gb2312">>} -> "cp936"
      [] charset = <<"ascii">> -> "ascii"
      [] OTHER -> ""

\* iconv.decode(buffer, charset): throws "Encoding not recognized"
iconvDecode(buffer, charset) ==
    IF Codec(charset) = ""
    THEN Throw([kind |-> "error", s |-> <<"Encoding not recognized">>, enc |-> ""])
    ELSE Return(Str([i \in 1..Len(buffer.s) |->
                        IF buffer.s[i] \in NonAscii /\ Codec(charset) /= buffer.enc
                        THEN Garbled ELSE buffer.s[i]]))

(***************************************************************************)
(* Fetcher.request: the headers makeRequest is given                       *)
(***************************************************************************)
\* "en-US,en;q=0.9,zh-CN;q=0.8,zh;q=0.7"
DefaultAcceptLanguage ==
    <<"en", "-", "US", ",", "en", ";", "q", "=", "0.9", ",",
      "zh", "-", "CN", ";", "q", "=", "0.8", ",", "zh", ";", "q", "=", "0.7">>

RECURSIVE Assign(_, _)
\* Object.assign(target, source)
Assign(target, source) ==
    IF source = <<>> THEN target
    ELSE Put(Assign(target, SubSeq(source, 1, Len(source) - 1)),
             source[Len(source)].name, source[Len(source)].value)

\* headers = Object.assign({ "accept-language": ..., ... }, headers); the
\* accept header defaults to the mime type of the URL's extension, if any,
\* followed by or else "*/*"; sysLang is put in front of accept-language
\* when it does not occur in it.  The other default headers are not read
\* by the decoding.
requestHeaders(headers, mime, sysLang) ==
    LET h1 == Assign(<<[name |-> "accept-language", value |-> DefaultAcceptLanguage]>>,
                     headers)
        h2 == IF Falsy(Get(h1, "accept"))
              THEN Put(h1, "accept",
                       IF Falsy(mime) THEN <<"*", "/", "*">>
                       ELSE mime \o <<",", "*", "/", "*", ";", "q", "=", "0.9">>)
              ELSE h1
    IN  IF Includes(Get(h2, "accept-language"), sysLang) THEN h2
        ELSE Put(h2, "accept-language",
                 sysLang \o <<";", "q", "=", "1", ",">> \o Get(h2, "accept-language"))

(***************************************************************************)
(* Fetcher.makeRequest from `let resInfo` to `return response`.  rq is the *)
(* request (responseType, responseCharset, headers), info is resInfo,      *)
(* detector is what the charset detector does when it is called.  Of the   *)
(* Response, `type` and `data` are kept.                                   *)
(***************************************************************************)
Decoded(type, data) == [how |-> "return", type |-> type, data |-> data]
Failed(data) == [how |-> "throw", type |-> <<>>, data |-> data]
Nothing == [how |-> "none", type |-> <<>>, data |-> Str(<<>>)]

\* let charset = request.responseCharset || resInfo.charset || (() => {
\*     if (reqLang.includes("zh") || ...) return detectEA(res.data).encoding
\*     else return detect(res.data).encoding })()
ResolveCharset(rq, info, detector) ==
    IF ~Falsy(rq.responseCharset)
    THEN [how |-> "return", charset |-> rq.responseCharset, calls |-> <<>>]
    ELSE IF ~Falsy(info.charset)
    THEN [how |-> "return", charset |-> info.charset, calls |-> <<>>]
    ELSE LET reqLang == Get(rq.headers, "accept-language") IN
         [how |-> detector.how, charset |-> detector.encoding,
          calls |-> IF \/ Includes(reqLang, <<"zh">>)
                       \/ Includes(reqLang, <<"jp">>)
                       \/ Includes(reqLang, <<"ko">>)
                    THEN <<"detectEA">> ELSE <<"detect">>]

ForcedKeepText(rq, info, buffer, charset) ==
    LET decoded == IF buffer.s = <<>> THEN Return(Str(<<>>))
                   ELSE IF ~Falsy(charset) THEN iconvDecode(buffer, charset)
                   ELSE Throw(TypeError(<<"Cannot decode the data as ">>
                                \o rq.responseType
                                \o <<", try again with the 'responseCharset' option">>))
    IN  IF decoded.how = "throw"
        THEN IF ~Falsy(rq.responseCharset)
             THEN Failed(TypeError(<<"Cannot decode the data by charset ">>
                                      \o rq.responseCharset))
             ELSE Failed(TypeError(<<"Cannot decode the data as ">>
                                      \o rq.responseType))
        ELSE IF rq.responseType = <<"json">>
        THEN LET parsed == IF info.type = <<"xml">> THEN parseXML(decoded.value.s)
                           ELSE JSONparse(decoded.value.s)
             IN  IF parsed.how = "throw"
                 THEN Decoded(<<"text">>, decoded.value)
                 ELSE Decoded(<<"json">>, parsed.value)
        ELSE Decoded(<<"text">>, decoded.value)

\* the branch `else if (request.responseType)`: decode to text or json.  The
\* texts that occur are shorter than 32 characters, so the preview in the
\* last message is the text itself.
Forced(rq, info, buffer, charset) ==
    LET decoded == IF buffer.s = <<>> THEN Return(Str(<<>>))
                   ELSE IF ~Falsy(charset) THEN iconvDecode(buffer, charset)
                   ELSE Throw(TypeError(<<"Cannot decode the data as ">>
                                \o rq.responseType
                                \o <<", try again with the 'responseCharset' option">>))
    IN  IF decoded.how = "throw"
        THEN IF ~Falsy(rq.responseCharset)
             THEN Failed(TypeError(<<"Cannot decode the data by charset ">>
                                      \o rq.responseCharset))
             ELSE Failed(TypeError(<<"Cannot decode the data as ">>
                                      \o rq.responseType))
        ELSE IF rq.responseType = <<"json">>
        THEN LET parsed == IF info.type = <<"xml">> THEN parseXML(decoded.value.s)
                           ELSE JSONparse(decoded.value.s)
             IN  IF parsed.how = "throw"
                 THEN Failed(TypeError(<<"Cannot decode the data '">>
                                \o decoded.value.s \o <<"' as JSON">>))
                 ELSE Decoded(<<"json">>, parsed.value)
        ELSE Decoded(<<"text">>, decoded.value)

AutoDetectAnyPrefix(info, type, buffer, charset) ==
    IF buffer.s = <<>> THEN Decoded(<<"text">>, Str(<<>>))
    ELSE IF ~Falsy(charset)
    THEN LET decoded == iconvDecode(buffer, charset) IN
         IF decoded.how = "throw" THEN Decoded(<<"buffer">>, buffer)
         ELSE IF type = <<"json">>
         THEN LET parsed == JSONparse(decoded.value.s) IN
              IF parsed.how = "throw" THEN Decoded(<<"buffer">>, buffer)
              ELSE Decoded(<<"json">>, parsed.value)
         ELSE IF type = <<"xml">>
         THEN LET parsed == parseXML(decoded.value.s) IN
              IF parsed.how = "throw" THEN Decoded(<<"buffer">>, buffer)
              ELSE Decoded(<<"json">>, parsed.value)
         ELSE Decoded(<<"text">>, decoded.value)
    ELSE Decoded(<<"buffer">>, buffer)

AutoDetectKeepType(info, type, buffer, charset) ==
    IF info.prefix \in {<<"text">>, <<"application">>, <<"*">>}
    THEN IF buffer.s = <<>> THEN Decoded(<<"text">>, Str(<<>>))
         ELSE IF ~Falsy(charset)
         THEN LET decoded == iconvDecode(buffer, charset) IN
              IF decoded.how = "throw" THEN Decoded(<<"buffer">>, buffer)
              ELSE IF type = <<"json">>
              THEN LET parsed == JSONparse(decoded.value.s) IN
                   IF parsed.how = "throw" THEN Decoded(<<"buffer">>, buffer)
                   ELSE Decoded(<<"json">>, parsed.value)
              ELSE IF type = <<"xml">>
              THEN LET parsed == parseXML(decoded.value.s) IN
                   IF parsed.how = "throw" THEN Decoded(<<"buffer">>, buffer)
                   ELSE Decoded(<<"json">>, parsed.value)
              ELSE Decoded(type, decoded.value)
         ELSE Decoded(<<"buffer">>, buffer)
    ELSE Decoded(<<"buffer">>, buffer)

\* the branch `else { // auto-detect`: whatever is thrown inside its try is
\* caught and the bytes are returned as they are
AutoDetect(info, type, buffer, charset) ==
    IF info.prefix \in {<<"text">>, <<"application">>, <<"*">>}
    THEN IF buffer.s = <<>> THEN Decoded(<<"text">>, Str(<<>>))
         ELSE IF ~Falsy(charset)
         THEN LET decoded == iconvDecode(buffer, charset) IN
              IF decoded.how = "throw" THEN Decoded(<<"buffer">>, buffer)
              ELSE IF type = <<"json">>
              THEN LET parsed == JSONparse(decoded.value.s) IN
                   IF parsed.how = "throw" THEN Decoded(<<"buffer">>, buffer)
                   ELSE Decoded(<<"json">>, parsed.value)
              ELSE IF type = <<"xml">>
              THEN LET parsed == parseXML(decoded.value.s) IN
                   IF parsed.how = "throw" THEN Decoded(<<"buffer">>, buffer)
                   ELSE Decoded(<<"json">>, parsed.value)
              ELSE Decoded(<<"text">>, decoded.value)
         ELSE Decoded(<<"buffer">>, buffer)
    ELSE Decoded(<<"buffer">>, buffer)

\* if (type === "buffer" || (type === "octet-stream" && !request.responseType))
\* ... else if (request.responseType) ... else ..., on the type and the
\* charset resolved before
DecodeOnlyForcedBuffer(rq, info, buffer, type, charset) ==
    IF type = <<"buffer">>
    THEN Decoded(<<"buffer">>, buffer)
    ELSE IF ~Falsy(rq.responseType) THEN Forced(rq, info, buffer, charset)
    ELSE AutoDetect(info, type, buffer, charset)

Decode(rq, info, buffer, type, charset) ==
    IF type = <<"buffer">> \/ (type = <<"octet-stream">> /\ Falsy(rq.responseType))
    THEN Decoded(<<"buffer">>, buffer)
    ELSE IF ~Falsy(rq.responseType) THEN Forced(rq, info, buffer, charset)
    ELSE AutoDetect(info, type, buffer, charset)

\* makeRequest once axios has answered with rs: the charset is resolved,
\* and a detector called, before any branch is taken and outside every
\* try; what a detector throws leaves makeRequest as it is
makeRequest(rq, rs, detector) ==
    LET info == resolveContentType(rs.headers, rq.headers)
        type == Or(rq.responseType, info.type)
        resolved == ResolveCharset(rq, info, detector)
    IN  [resInfo |-> info,
         calls |-> resolved.calls,
         result |-> IF resolved.how = "throw"
                    THEN Failed([kind |-> "error", s |-> <<"detector failed">>,
                                 enc |-> ""])
                    ELSE Decode(rq, info, rs.data, type, resolved.charset)]

\* fixResponse(res, req), rsp being the Response and headers req.headers:
\* a string is trimmed whatever res.type is, and parsed when the first
\* accept type is json and the parse succeeds
fixResponse(rsp, headers) ==
    LET isString == rsp.data.kind = "string"
        data == IF isString THEN Str(trim(rsp.data.s)) ELSE rsp.data
        acceptType == getHeader(headers, "accept")
    IN  IF /\ isString
           /\ ~Falsy(acceptType)
           /\ extractContentType(SplitComma(acceptType)[1]).type = <<"json">>
           /\ JSONparse(data.s).how = "return"
        THEN [rsp EXCEPT !.data = JSONparse(data.s).value, !.type = <<"json">>]
        ELSE [rsp EXCEPT !.data = data]

(***************************************************************************)
(* Proxies.  A proxy given as a URL string is written as the parts         *)
(* new URL(proxy) has; protocol "" is an absent protocol and auth "" an    *)
(* absent auth.                                                            *)
(***************************************************************************)
ProxyObject(protocol, host, port, auth) ==
    [form |-> "object", protocol |-> protocol, host |-> host, port |-> port,
     auth |-> auth]
ProxyString(protocol, host, port, auth) ==
    [form |-> "string", protocol |-> protocol, host |-> host, port |-> port,
     auth |-> auth]
NoProxy == [form |-> "none", protocol |-> "", host |-> "", port |-> "", auth |-> ""]
UndefinedProxy ==
    [form |-> "undefined", protocol |-> "", host |-> "", port |-> "", auth |-> ""]

\* request.proxy of the attempts
Proxies ==
    {NoProxy,
     ProxyString("http:", "127.0.0.1", "3128", ""),
     ProxyObject("", "127.0.0.1", "3128", ""),
     ProxyObject("http:", "127.0.0.1", "3128", "alice:secret"),
     ProxyObject("http:", "127.0.0.1", "3128", "bob:hunter2"),
     ProxyObject("https:", "127.0.0.1", "3128", "alice:secret")}

\* constructProxy: the branch for a string builds the object and falls off
\* the end of the function; only the else branch returns
constructProxy(proxy) ==
    IF proxy.form = "string" THEN UndefinedProxy ELSE proxy

\* an agent: the proxyOptions it was created with, under the key it is
\* cached by; id tells one created agent from another
Agent(key, proxy, id) ==
    [key |-> key, protocol |-> proxy.protocol, host |-> proxy.host,
     port |-> proxy.port, auth |-> proxy.auth, id |-> id]

\* this.httpAgent / this.httpsAgent, used when the request has no proxy
DirectAgent ==
    [key |-> <<>>, protocol |-> "", host |-> "", port |-> "", auth |-> "", id |-> 0]

\* proxyUrl = proxy.host + ":" + proxy.port, after "https://" when
\* proxy.protocol === "https:" and after "http://" otherwise
ProxyUrl(proxy) ==
    <<IF proxy.protocol = "https:" THEN "https://" ELSE "http://",
      proxy.host, ":", proxy.port>>

SelectAgentAlwaysCreate(p, agents, created) ==
    IF p.form = "none"
    THEN [how |-> "return", agents |-> agents, agent |-> DirectAgent,
          created |-> created]
    ELSE LET proxy == constructProxy(p) IN
         IF proxy.form = "undefined"
         THEN [how |-> "throw", agents |-> agents, agent |-> DirectAgent,
               created |-> created]
         ELSE LET proxyUrl == ProxyUrl(proxy)
                  made == Agent(proxyUrl, proxy, Len(created) + 1)
              IN  [how |-> "return",
                   agents |-> [u \in DOMAIN agents \cup {proxyUrl} |->
                                  IF u = proxyUrl THEN made ELSE agents[u]],
                   agent |-> made,
                   created |-> Append(created, made)]

\* if (request.proxy) { let proxy = constructProxy(request.proxy); proxyUrl
\* = ...; if (!this.proxyAgents[proxyUrl]) this.proxyAgents[proxyUrl] =
\* install(createProxyAgent(proxyOptions), 4); options.httpAgent =
\* options.httpsAgent = this.proxyAgents[proxyUrl] }.  Reading proxy.host
\* of undefined throws a TypeError.
SelectAgent(p, agents, created) ==
    IF p.form = "none"
    THEN [how |-> "return", agents |-> agents, agent |-> DirectAgent,
          created |-> created]
    ELSE LET proxy == constructProxy(p) IN
         IF proxy.form = "undefined"
         THEN [how |-> "throw", agents |-> agents, agent |-> DirectAgent,
               created |-> created]
         ELSE LET proxyUrl == ProxyUrl(proxy) IN
              IF proxyUrl \in DOMAIN agents
              THEN [how |-> "return", agents |-> agents,
                    agent |-> agents[proxyUrl], created |-> created]
              ELSE LET made == Agent(proxyUrl, proxy, Len(created) + 1) IN
                   [how |-> "return",
                    agents |-> [u \in DOMAIN agents \cup {proxyUrl} |->
                                   IF u = proxyUrl THEN made ELSE agents[u]],
                    agent |-> made,
                    created |-> Append(created, made)]

(***************************************************************************)
(* The calls of fetch and the HTTP answers the decoding is followed on     *)
(***************************************************************************)
\* values of a content-type header
ContentTypes ==
    {<<"application", "/", "json">>,
     <<"application", "/", "json", ";", " ", "charset", "=", "utf-8">>,
     <<"text", "/", "html">>,
     <<"text", "/", "html", ";", " ", "charset", "=", "gbk">>,
     <<"text", "/", "xml">>,
     <<"application", "/", "octet-stream">>,
     <<"image", "/", "png">>,
     <<"multipart", "/", "form-data", ";", " ", "boundary", "=", "x">>}

\* values of an accept header
AcceptTypes ==
    {<<"application", "/", "json">>,
     <<"application", "/", "json", ",", " ", "text", "/", "plain">>,
     <<"text", "/", "html", ",", "application", "/", "xml", ";", "q", "=", "0.9">>,
     <<"application", "/", "json", ";", "q", "=", "0.9", ",", " ", "text", "/", "plain">>,
     <<"*", "/", "*">>}

\* Response headers as node's http module hands them to axios: lower-cased.
ResHeaders ==
    {<<>>} \cup {<<[name |-> "content-type", value |-> c]>> : c \in ContentTypes}

\* Header objects as any caller of resolveContentType may pass them.
AnyResHeaders ==
    {<<>>} \cup {<<[name |-> n, value |-> c]>> :
                    n \in {"content-type", "Content-Type"}, c \in ContentTypes}

AnyReqHeaders ==
    {<<>>} \cup {<<[name |-> n, value |-> a]>> :
                    n \in {"accept", "Accept"}, a \in AcceptTypes}

\* The accept header a caller of fetch passes, with the mime type
\* lookup(extname(pathname)) gives for the URL (undefined when the path has
\* no known extension).
AcceptChoices ==
    {[headers |-> <<>>, mime |-> void0],
     [headers |-> <<>>, mime |-> <<"application", "/", "json">>],
     [headers |-> <<[name |-> "accept", value |-> <<"application", "/", "json">>]>>,
      mime |-> void0],
     [headers |-> <<[name |-> "Accept", value |-> <<"application", "/", "json">>]>>,
      mime |-> void0],
     [headers |-> <<[name |-> "accept", value |->
          <<"text", "/", "html", ",", "application", "/", "xml", ";", "q", "=", "0.9">>]>>,
      mime |-> void0]}

\* The accept-language header a caller passes, with the locale of the system.
LanguageChoices ==
    {[headers |-> <<>>, sysLang |-> <<"en", "-", "US">>],
     [headers |-> <<[name |-> "Accept-Language", value |-> <<"en", "-", "US">>]>>,
      sysLang |-> <<"en", "-", "US">>],
     [headers |-> <<[name |-> "Accept-Language", value |-> <<"en", "-", "US">>]>>,
      sysLang |-> <<"zh", "-", "CN">>]}

ResponseTypes == {void0, <<"text">>, <<"json">>, <<"buffer">>}
ResponseCharsets == {void0, <<"utf-8">>, <<"x-unknown">>}

\* the values whose JSON text a server sends
JsonValues ==
    {Json("object", "{\"a\":1}"), Json("array", "[1,2]"), Json("number", "123"),
     Json("boolean", "true"), Json("null", "null"),
     Str(<<"hello">>), Str(<<" ", "a", " ">>), Str(<<"{\"a\":1}">>)}

\* res.data: nothing, the JSON text of a value, JSON text inside whitespace,
\* cut JSON text, plain text, XML, text in GBK
Bodies ==
    {Buffer("utf8", <<>>)}
        \cup {Buffer("utf8", JSONstringify(v)) : v \in JsonValues}
        \cup {Buffer("utf8", <<" ", "{\"a\":1}", "\n">>),
              Buffer("utf8", <<"{\"a\":">>),
              Buffer("utf8", <<" ", "Hello, World!", " ">>),
              Buffer("utf8", <<"<r><foo>Hello</foo></r>">>),
              Buffer("cp936", <<"[CJK]">>)}

\* detect(res.data) / detectEA(res.data): an encoding name, none, or a throw
Detectors ==
    {[how |-> "return", encoding |-> <<"UTF-8">>],
     [how |-> "return", encoding |-> void0],
     [how |-> "throw", encoding |-> void0]}

(***************************************************************************)
(* The state after construction: no dispatch has been started.             *)
(***************************************************************************)
InitDispatch ==
    /\ pc = [d \in DispatchIds |-> "Idle"]
    /\ request = [d \in DispatchIds |->
                    [retries |-> 0, url |-> <<>>, referer |-> <<>>]]
    /\ retries = [d \in DispatchIds |-> -1]
    /\ tick = [d \in DispatchIds |-> NewTick]
    /\ inflight = [d \in DispatchIds |-> 0]
    /\ calls = [d \in DispatchIds |-> 0]
    /\ hist = [d \in DispatchIds |-> <<>>]
    /\ delays = [d \in DispatchIds |-> <<>>]
    /\ settlements = [d \in DispatchIds |-> <<>>]
    /\ now = 0
    /\ magicVars = [d \in DispatchIds |-> FALSE]
    /\ url = [d \in DispatchIds |-> <<>>]
    /\ referer = [d \in DispatchIds |-> <<>>]
    /\ sent = [d \in DispatchIds |-> <<>>]
    /\ rejected = [d \in DispatchIds |-> <<>>]

\* no call of fetch is being followed
InitDecode ==
    /\ dpc = "Idle"
    /\ options = [responseType |-> void0, responseCharset |-> void0,
                  headers |-> <<>>, mime |-> void0]
    /\ res = [headers |-> <<>>, data |-> Buffer("utf8", <<>>)]
    /\ env = [sysLang |-> <<"en", "-", "US">>,
              detector |-> [how |-> "return", encoding |-> void0]]
    /\ resInfo = [type |-> <<>>, prefix |-> <<>>, charset |-> void0]
    /\ fetched = Nothing
    /\ detectorCalls = <<>>

\* no attempt has gone through proxy selection
InitProxy ==
    /\ proxyAgents = [u \in {} |-> DirectAgent]
    /\ proxied = [a \in AttemptIds |->
                    [pc |-> "Idle", proxy |-> NoProxy, agent |-> DirectAgent]]
    /\ createdAgents = <<>>

Init == InitDispatch /\ InitDecode /\ InitProxy

\* A call of fetch whose HTTP exchange has been answered: every caller
\* option, answer and environment.
DecodeInit ==
    /\ InitDispatch
    /\ InitProxy
    /\ dpc = "Fetching"
    /\ \E t \in ResponseTypes, c \in ResponseCharsets,
          a \in AcceptChoices, l \in LanguageChoices, detector \in Detectors :
          /\ options = [responseType |-> t, responseCharset |-> c,
                        headers |-> l.headers \o a.headers, mime |-> a.mime]
          /\ env = [sysLang |-> l.sysLang, detector |-> detector]
    /\ res \in [headers : ResHeaders, data : Bodies]
    /\ resInfo = [type |-> <<>>, prefix |-> <<>>, charset |-> void0]
    /\ fetched = Nothing
    /\ detectorCalls = <<>>

\* A call of resolveContentType on any pair of header objects.
ClassifyInit ==
    /\ InitDispatch
    /\ InitProxy
    /\ dpc = "Classifying"
    /\ options \in [responseType : {void0}, responseCharset : {void0},
                    headers : AnyReqHeaders, mime : {void0}]
    /\ res \in [headers : AnyResHeaders, data : {Buffer("utf8", <<>>)}]
    /\ env = [sysLang |-> <<"en", "-", "US">>,
              detector |-> [how |-> "return", encoding |-> void0]]
    /\ resInfo = [type |-> <<>>, prefix |-> <<>>, charset |-> void0]
    /\ fetched = Nothing
    /\ detectorCalls = <<>>

\* doRequest(k - 1) up to its `await handle(request)`, at clock value t, on
\* the request object req: retries = k, the magic variables are resolved
\* and the transport is invoked with the request.
StartAttempt(d, k, req, t) ==
    /\ retries' = [retries EXCEPT ![d] = k]
    /\ request' = [request EXCEPT ![d] =
                      Substitute(req, magicVars'[d], url'[d], referer'[d], t)]
    /\ sent' = [sent EXCEPT ![d] = Append(@,
                      [url |-> request'[d].url, referer |-> request'[d].referer])]
    /\ calls' = [calls EXCEPT ![d] = @ + 1]
    /\ inflight' = [inflight EXCEPT ![d] = @ + 1]
    /\ pc' = [pc EXCEPT ![d] = "Attempting"]

\* Fetcher.dispatch(request, handle): the request is normalized, the promise
\* and the timer are created, and doRequest() runs up to its
\* `await handle(request)`: retries = -1 + 1, the transport is invoked.
Dispatch(d, n, cfg) ==
    /\ pc[d] = "Idle"
    /\ magicVars' = [magicVars EXCEPT ![d] = cfg.magicVars]
    /\ url' = [url EXCEPT ![d] = cfg.url]
    /\ referer' = [referer EXCEPT ![d] = cfg.referer]
    /\ tick' = [tick EXCEPT ![TickOf(d)] = NewTick]
    /\ StartAttempt(d, 0,
          [retries |-> n, url |-> cfg.url, referer |-> cfg.referer], now)
    /\ UNCHANGED <<hist, delays, settlements, now, rejected>>
    /\ UNCHANGED <<decodeVars, proxyVars>>

\* The transport call of d ends with `result` and doRequest runs to its end.
TransportSettles(d, result) ==
    /\ pc[d] = "Attempting"
    /\ inflight[d] > 0
    /\ LET r == AfterAttempt(result, retries[d], request[d], tick[TickOf(d)]) IN
        /\ pc' = [pc EXCEPT ![d] = r.pc]
        /\ tick' = [tick EXCEPT ![TickOf(d)] = r.tick]
        /\ settlements' = [settlements EXCEPT ![d] = @ \o r.settle]
        /\ delays' = [delays EXCEPT ![d] = @ \o r.delay]
        /\ rejected' = [rejected EXCEPT ![d] = @ \o
              IF r.settle /= <<>> /\ r.settle[1].call = "reject"
              THEN <<RejectedError(ErrorOf(result), ResponseOf(result),
                                   request[d], url[d], referer[d])>>
              ELSE <<>>]
    /\ hist' = [hist EXCEPT ![d] = Append(@, result)]
    /\ inflight' = [inflight EXCEPT ![d] = @ - 1]
    /\ UNCHANGED <<request, retries, calls, now, magicVars, url, referer, sent>>
    /\ UNCHANGED <<decodeVars, proxyVars>>

\* A variant in which the timer re-invokes doRequest while a call is pending.
TimerFiresEarly(d) ==
    /\ pc[d] \in {"Attempting", "WaitingBackoff"}
    /\ tick' = [tick EXCEPT ![TickOf(d)] = TickReady(@)]
    /\ now' = now + tick[TickOf(d)].backoffDelay_
    /\ UNCHANGED <<hist, delays, settlements, magicVars, url, referer, rejected>>
    /\ UNCHANGED <<decodeVars, proxyVars>>
    /\ StartAttempt(d, tick[TickOf(d)].backoffNumber_ + 1, request[d], now')

\* The timeout of d's timer fires: "ready" is emitted with backoffNumber_,
\* so doRequest(backoffNumber_) runs up to its `await handle(request)`
\* (retries = backoffNumber_ + 1, the transport is invoked); then
\* backoffNumber_ is incremented.  The clock has advanced by the timer's
\* delay at least; the model advances it by exactly that.
TimerFires(d) ==
    /\ pc[d] = "WaitingBackoff"
    /\ tick[TickOf(d)].timeoutID_ /= -1
    /\ tick' = [tick EXCEPT ![TickOf(d)] = TickReady(@)]
    /\ now' = now + tick[TickOf(d)].backoffDelay_
    /\ UNCHANGED <<hist, delays, settlements, magicVars, url, referer, rejected>>
    /\ UNCHANGED <<decodeVars, proxyVars>>
    /\ StartAttempt(d, tick[TickOf(d)].backoffNumber_ + 1, request[d], now')

\* The handle of Fetcher.fetch, called by doRequest with the request as
\* dispatch normalized it (headers lower-cased): Fetcher.request completes
\* the headers and makeRequest decodes the answer.
FetcherRequest ==
    /\ dpc = "Fetching"
    /\ LET rq == [responseType |-> options.responseType,
                  responseCharset |-> options.responseCharset,
                  headers |-> requestHeaders(lowerHeaders(options.headers),
                                             options.mime, env.sysLang)]
           made == makeRequest(rq, res, env.detector)
       IN  /\ resInfo' = made.resInfo
           /\ detectorCalls' = detectorCalls \o made.calls
           /\ fetched' = made.result
           /\ dpc' = IF made.result.how = "return" THEN "Returned" ELSE "Threw"
    /\ UNCHANGED <<options, res, env>>
    /\ UNCHANGED <<dispatchVars, proxyVars>>

\* doRequest's resolve(fixResponse(response, request)), request being the
\* one dispatch normalized
ResolveFixed ==
    /\ dpc = "Returned"
    /\ fetched' = fixResponse(fetched, lowerHeaders(options.headers))
    /\ dpc' = "Resolved"
    /\ UNCHANGED <<options, res, env, resInfo, detectorCalls>>
    /\ UNCHANGED <<dispatchVars, proxyVars>>

\* resolveContentType(res.headers, request.headers)
Classify ==
    /\ dpc = "Classifying"
    /\ resInfo' = resolveContentType(res.headers, options.headers)
    /\ dpc' = "Classified"
    /\ UNCHANGED <<options, res, env, fetched, detectorCalls>>
    /\ UNCHANGED <<dispatchVars, proxyVars>>

\* makeRequest(request) of attempt a up to `await Axios.request(options)`:
\* one synchronous run, which throws or leaves the call pending with the
\* agent chosen.
SelectProxyAgent(a, p) ==
    /\ proxied[a].pc \in {"Idle", "Threw"}
    /\ LET sel == SelectAgent(p, proxyAgents, createdAgents) IN
        /\ proxyAgents' = sel.agents
        /\ createdAgents' = sel.created
        /\ proxied' = [proxied EXCEPT ![a] =
              [pc |-> IF sel.how = "throw" THEN "Threw" ELSE "Awaiting",
               proxy |-> p, agent |-> sel.agent]]
    /\ UNCHANGED <<dispatchVars, decodeVars>>

\* the axios call of attempt a ends; the dispatch may make another attempt
AxiosSettles(a) ==
    /\ proxied[a].pc = "Awaiting"
    /\ proxied' = [proxied EXCEPT ![a].pc = "Idle"]
    /\ UNCHANGED <<proxyAgents, createdAgents>>
    /\ UNCHANGED <<dispatchVars, decodeVars>>

\* One dispatch, every way a transport call can end.
Next ==
    \/ \E n \in 0..MaxRetries, cfg \in Configs : Dispatch(1, n, cfg)
    \/ \E result \in Results : TransportSettles(1, result)
    \/ TimerFires(1)

Spec == Init /\ [][Next]_vars

\* A transport call eventually returns or throws, and a scheduled timeout
\* eventually fires.
LiveSpec ==
    /\ Spec
    /\ WF_vars(\E result \in Results : TransportSettles(1, result))
    /\ WF_vars(TimerFires(1))

\* Concurrent dispatches, in any interleaving.
ConcNext ==
    \/ \E d \in DispatchIds, n \in 0..MaxConcRetries, cfg \in ConcConfigs :
          Dispatch(d, n, cfg)
    \/ \E d \in DispatchIds, result \in ConcResults : TransportSettles(d, result)
    \/ \E d \in DispatchIds : TimerFires(d)

ConcSpec == Init /\ [][ConcNext]_vars

\* The results that keep a dispatch retrying or end it, for long runs.
BackoffResults ==
    {Returns(Response(FALSE, 503)), Returns(Response(TRUE, 200)),
     Throws(ErrorObject({}, TRUE))}

\* The first two dispatches with up to MaxBackoffRetries retries each, in
\* any interleaving.
BackoffNext ==
    \/ \E d \in {1, 2}, n \in 0..MaxBackoffRetries, cfg \in ConcConfigs :
          Dispatch(d, n, cfg)
    \/ \E d \in {1, 2}, result \in BackoffResults : TransportSettles(d, result)
    \/ \E d \in {1, 2} : TimerFires(d)

BackoffSpec == Init /\ [][BackoffNext]_vars

\* One call of fetch, from the HTTP answer to the resolved Response.
DecodeNext == FetcherRequest \/ ResolveFixed

DecodeSpec == DecodeInit /\ [][DecodeNext]_vars

\* The classifier applied to a pair of header objects.
ClassifyNext == Classify

ClassifySpec == ClassifyInit /\ [][ClassifyNext]_vars

\* Attempts of concurrent dispatches on one Fetcher, in any interleaving of
\* their synchronous runs.
ProxyNext ==
    \/ \E a \in AttemptIds, p \in Proxies : SelectProxyAgent(a, p)
    \/ \E a \in AttemptIds : AxiosSettles(a)

ProxyInit == InitDispatch /\ InitDecode /\ InitProxy

ProxySpec == ProxyInit /\ [][ProxyNext]_vars

(***************************************************************************)
(* Vocabulary of the properties                                            *)
(***************************************************************************)
Started(d) == pc[d] /= "Idle"
Settled(d) == settlements[d] /= <<>>
Stopped(d) == pc[d] \in {"Succeeded", "Failed", "Crashed"}
Last(h) == h[Len(h)]

\* the transport returned a non-ok Response with a retryable status
RetryableStatusResult(result) ==
    /\ result.how = "return"
    /\ result.value.kind = "response"
    /\ ~result.value.ok
    /\ result.value.status \in {408, 409, 425, 500, 502, 503, 504}

OkResponseResult(result) ==
    result.how = "return" /\ result.value.kind = "response" /\ result.value.ok

ThrewError(result) == result.how = "throw" /\ result.value.kind = "error"

HangUpResult(result) ==
    /\ ThrewError(result)
    /\ result.value.text \cap {"socket hang up", "net::ERR_EMPTY_RESPONSE"} /= {}

UnretryableResult(result) ==
    /\ ThrewError(result)
    /\ result.value.text \cap
          {"ECONNREFUSED", "ERR_CONNECTION_REFUSED", "Max redirects",
           "ERR_TOO_MANY_REDIRECTS", "ENOTFOUND", "ERR_INTERNET_DISCONNECTED"} /= {}

AllOf(h, P(_)) == \A i \in 1..Len(h) : P(h[i])

\* C1: a dispatch with retries = N whose transport returned a retryable
\* non-ok Response on every attempt never exceeds N+1 transport invocations
\* and has made exactly N+1 of them when it stops.
C1_RetryableStatusInvokesNPlus1 ==
    \A d \in DispatchIds :
        (Started(d) /\ AllOf(hist[d], RetryableStatusResult)) =>
            /\ calls[d] <= request[d].retries + 1
            /\ Stopped(d) => calls[d] = request[d].retries + 1

C1_Witness ==
    /\ Stopped(1) /\ request[1].retries = 2 /\ calls[1] = 3
    /\ AllOf(hist[1], RetryableStatusResult)

\* C2 (as claimed): a dispatch whose transport returned a retryable non-ok
\* Response on every attempt ends in rejection.
C2_Original_EndsInRejection ==
    \A d \in DispatchIds :
        (Stopped(d) /\ AllOf(hist[d], RetryableStatusResult)) =>
            /\ pc[d] = "Failed"
            /\ Len(settlements[d]) = 1
            /\ settlements[d][1].call = "reject"

\* C2 (amended): a dispatch whose transport returned a retryable non-ok
\* Response on every attempt ends, after the last attempt, by resolving with
\* that attempt's non-ok Response; it does not reject.
C2_EndsResolvedWithLastNonOk ==
    \A d \in DispatchIds :
        (Stopped(d) /\ AllOf(hist[d], RetryableStatusResult)) =>
            /\ pc[d] = "Succeeded"
            /\ settlements[d] =
                  <<[call |-> "resolve", value |-> Last(hist[d]).value]>>
            /\ ~settlements[d][1].value.ok
            /\ Len(hist[d]) = request[d].retries + 1

C2_Witness ==
    /\ pc[1] = "Succeeded" /\ request[1].retries = 2 /\ Len(hist[1]) = 3
    /\ AllOf(hist[1], RetryableStatusResult)

\* C3: when the transport returned a retryable non-ok Response on attempts
\* 0..k-1 and an ok Response on attempt k, the dispatch has resolved with the
\* Response of attempt k after exactly k+1 transport invocations.
C3_ResolvesWithOkOfAttemptK ==
    \A d \in DispatchIds :
        (/\ Len(hist[d]) >= 1
         /\ OkResponseResult(Last(hist[d]))
         /\ AllOf(SubSeq(hist[d], 1, Len(hist[d]) - 1), RetryableStatusResult)) =>
            /\ pc[d] = "Succeeded"
            /\ settlements[d] =
                  <<[call |-> "resolve", value |-> Last(hist[d]).value]>>
            /\ calls[d] = Len(hist[d])
            /\ Len(hist[d]) - 1 <= request[d].retries

C3_Witness ==
    /\ Len(hist[1]) = 3 /\ pc[1] = "Succeeded"
    /\ OkResponseResult(hist[1][3])
    /\ RetryableStatusResult(hist[1][1]) /\ RetryableStatusResult(hist[1][2])

\* C4: a dispatch with retries >= 1 whose transport threw a hang-up error on
\* every attempt never exceeds 2 transport invocations and has made exactly
\* 2 and rejected when it stops; and a hang-up thrown at an attempt index
\* >= 1 is the last attempt of its dispatch, which has rejected.
C4_HangUpRetriedOnce ==
    \A d \in DispatchIds :
        /\ (Started(d) /\ request[d].retries >= 1 /\ AllOf(hist[d], HangUpResult)) =>
              /\ calls[d] <= 2
              /\ Stopped(d) => (calls[d] = 2 /\ pc[d] = "Failed")
        /\ \A i \in 2..Len(hist[d]) :
              HangUpResult(hist[d][i]) =>
                  /\ i = Len(hist[d]) /\ calls[d] = i
                  /\ pc[d] = "Failed"
                  /\ settlements[d] = <<[call |-> "reject", value |-> hist[d][i].value]>>

C4_Witness ==
    /\ request[1].retries = 2 /\ pc[1] = "Failed" /\ calls[1] = 2
    /\ AllOf(hist[1], HangUpResult)

\* C5 (as claimed): an attempt that threw an error whose text matches an
\* unretryable signature is the last attempt of its dispatch, which has
\* rejected, for every retries and every attempt index.
C5_Original_UnretryableNeverRetried ==
    \A d \in DispatchIds : \A i \in 1..Len(hist[d]) :
        UnretryableResult(hist[d][i]) =>
            /\ i = Len(hist[d]) /\ calls[d] = i
            /\ pc[d] = "Failed"

\* C5 (amended): an attempt that threw an error whose text matches an
\* unretryable signature and does not match the hang-up signature is the
\* last attempt of its dispatch, which has rejected with that error, for
\* every retries and every attempt index.
C5_UnretryableNotHangUpNeverRetried ==
    \A d \in DispatchIds : \A i \in 1..Len(hist[d]) :
        (UnretryableResult(hist[d][i]) /\ ~HangUpResult(hist[d][i])) =>
            /\ i = Len(hist[d]) /\ calls[d] = i
            /\ pc[d] = "Failed"
            /\ settlements[d] = <<[call |-> "reject", value |-> hist[d][i].value]>>

C5_Witness ==
    /\ request[1].retries = 2 /\ pc[1] = "Failed" /\ calls[1] = 1
    /\ hist[1][1] = Throws(ErrorObject({"ENOTFOUND"}, TRUE))

\* C6: the number of transport invocations of a dispatch never exceeds
\* retries + 1.
C6_CallsAtMostRetriesPlus1 ==
    \A d \in DispatchIds : Started(d) => calls[d] <= request[d].retries + 1

\* C7: a dispatch has at most one transport call in flight, and an attempt
\* after the first starts only when every earlier attempt has ended and the
\* timer scheduled after the last one is pending and fires.
C7_SequentialAttempts ==
    [][\A d \in DispatchIds :
          /\ inflight'[d] <= 1
          /\ (calls'[d] > calls[d] /\ calls[d] >= 1) =>
                /\ inflight[d] = 0
                /\ Len(hist[d]) = calls[d]
                /\ pc[d] = "WaitingBackoff"
                /\ tick[d].timeoutID_ /= -1
                /\ tick'[d].timeoutID_ = -1
                /\ Len(delays[d]) = calls[d]]_vars

C7_Witness == calls[1] = 3 /\ inflight[1] = 1

\* C8: at most one resolve or reject is ever delivered on a dispatch's
\* promise, it carries the outcome of the last attempt, and once it is
\* delivered the timer is reset, no transport call is in flight and no
\* further transport invocation or settlement of that dispatch occurs.
C8_SettlesOnce ==
    [][\A d \in DispatchIds :
          /\ Len(settlements'[d]) <= 1
          /\ Settled(d) =>
                (calls'[d] = calls[d] /\ settlements'[d] = settlements[d])
          /\ settlements'[d] /= <<>> =>
                /\ tick'[d] = NewTick
                /\ inflight'[d] = 0
                /\ Len(hist'[d]) = calls'[d]
                /\ settlements'[d][1].value = Last(hist'[d]).value
                /\ pc'[d] \in {"Succeeded", "Failed"}]_vars

C8_Witness ==
    /\ Settled(1) /\ calls[1] = 3 /\ pc[1] = "Failed"

\* C9: every dispatch eventually settles, whatever the transport returns or
\* throws, when each transport call ends and each scheduled timer fires.
C9_EventuallySettles ==
    \A d \in DispatchIds : Started(d) ~> Settled(d)

(***************************************************************************)
(* A dispatch run alone on its own results: doRequest replayed on a        *)
(* private timer.                                                          *)
(***************************************************************************)
Alone0 ==
    [pc |-> "Attempting", retries |-> 0, tick |-> NewTick, calls |-> 1,
     delays |-> <<>>, settlements |-> <<>>]

AloneReady(s) ==
    [s EXCEPT !.pc = "Attempting", !.retries = s.tick.backoffNumber_ + 1,
              !.tick = TickReady(s.tick), !.calls = s.calls + 1]

AloneResult(s, result, req) ==
    LET r == AfterAttempt(result, s.retries, req, s.tick) IN
    [s EXCEPT !.pc = r.pc, !.tick = r.tick,
              !.delays = s.delays \o r.delay,
              !.settlements = s.settlements \o r.settle]

RECURSIVE Alone(_, _)
Alone(h, req) ==
    IF h = <<>> THEN Alone0
    ELSE LET s == Alone(SubSeq(h, 1, Len(h) - 1), req) IN
         IF s.pc = "WaitingBackoff" THEN AloneResult(AloneReady(s), Last(h), req)
         ELSE IF s.pc = "Attempting" THEN AloneResult(s, Last(h), req)
         ELSE [s EXCEPT !.pc = "Diverged"]

Actual(d) ==
    [pc |-> pc[d], retries |-> retries[d], tick |-> tick[d], calls |-> calls[d],
     delays |-> delays[d], settlements |-> settlements[d]]

\* C10: with dispatches running concurrently, the attempt counter, timer,
\* number of attempts, scheduled delays and outcome of each dispatch are
\* those of that dispatch run alone on its own transport results.
C10_DispatchesIndependent ==
    \A d \in DispatchIds :
        Started(d) =>
            LET s == Alone(hist[d], request[d]) IN
            \/ Actual(d) = s
            \/ s.pc = "WaitingBackoff" /\ Actual(d) = AloneReady(s)

C10_Witness ==
    /\ pc[1] = "Failed" /\ calls[1] = 2
    /\ pc[2] = "WaitingBackoff" /\ calls[2] = 1 /\ request[2].retries = 1

Rejects(d) == settlements[d] /= <<>> /\ settlements[d][1].call = "reject"

\* C11: the error a dispatch rejects with carries, as `request`, the request
\* as handed to the transport at the last attempt (its URL and referer being
\* the ones substituted for that attempt) and, as `response`, the Response
\* of the last attempt or null.
C11_RejectionCarriesLastRequest ==
    \A d \in DispatchIds :
        Rejects(d) =>
            /\ Len(rejected[d]) = 1
            /\ rejected[d][1].request.url = Last(sent[d]).url
            /\ rejected[d][1].request.referer = Last(sent[d]).referer
            /\ rejected[d][1].request.retries = request[d].retries
            /\ rejected[d][1].response =
                  IF Last(hist[d]).how = "return" /\ Last(hist[d]).value.kind = "response"
                  THEN Last(hist[d]).value ELSE null

C11_Witness ==
    /\ Rejects(1) /\ calls[1] = 3 /\ magicVars[1]
    /\ rejected[1][1].request.url /= url[1]
    /\ rejected[1][1].request.url /= sent[1][1].url
    /\ rejected[1][1].request.referer /= referer[1]

\* C12 (as claimed): when a dispatch rejects because its last attempt threw
\* a hang-up error, whatever kind of error object it is, the rejected
\* error's message is "net::ERR_EMPTY_RESPONSE at " + the failing request
\* URL and code, config, isAxiosError and toJSON are removed from it.
C12_Original_HangUpMessageCanonical ==
    \A d \in DispatchIds :
        (Rejects(d) /\ HangUpResult(Last(hist[d]))) =>
            /\ rejected[d][1].message =
                  [canonical |-> TRUE, at |-> Last(sent[d]).url]
            /\ rejected[d][1].properties
                  \cap {"code", "config", "isAxiosError", "toJSON"} = {}

\* C12 (amended): when a dispatch rejects because its last attempt threw a
\* hang-up error that is an axios error (isAxiosError set), the rejected
\* error's message is "net::ERR_EMPTY_RESPONSE at " + the failing request
\* URL and code, config, isAxiosError and toJSON are removed from it; the
\* message and properties of any other error object are left as thrown.
C12_AxiosHangUpMessageCanonical ==
    \A d \in DispatchIds :
        (Rejects(d) /\ HangUpResult(Last(hist[d]))) =>
            IF Last(hist[d]).value.isAxiosError
            THEN /\ rejected[d][1].message =
                       [canonical |-> TRUE, at |-> Last(sent[d]).url]
                 /\ rejected[d][1].properties
                       \cap {"code", "config", "isAxiosError", "toJSON"} = {}
            ELSE /\ ~rejected[d][1].message.canonical
                 /\ rejected[d][1].properties = PropertiesOf(Last(hist[d]).value)

C12_Witness ==
    /\ Rejects(1) /\ calls[1] = 2 /\ magicVars[1]
    /\ HangUpResult(hist[1][2]) /\ hist[1][2].value.isAxiosError
    /\ rejected[1][1].message.canonical
    /\ rejected[1][1].message.at /= url[1]

\* s is the template tpl with every {ts} replaced by the clock value t in
\* seconds and every {ms} by t in milliseconds
ExpansionOf(s, tpl, t) ==
    /\ Len(s) = Len(tpl)
    /\ \A j \in 1..Len(tpl) :
          s[j] = IF tpl[j] = [k |-> "tok", s |-> "{ts}", n |-> 0]
                 THEN [k |-> "num", s |-> "", n |-> t \div 1000]
                 ELSE IF tpl[j] = [k |-> "tok", s |-> "{ms}", n |-> 0]
                 THEN [k |-> "num", s |-> "", n |-> t]
                 ELSE tpl[j]

\* C13: with variable substitution enabled, the URL and the referer handed
\* to the transport at each attempt are the expansions, at the clock value
\* of that attempt, of the templates captured when the dispatch started.
C13_SubstitutesFromTemplates ==
    [][\A d \in DispatchIds :
          (calls'[d] > calls[d] /\ magicVars'[d]) =>
              /\ ExpansionOf(Last(sent'[d]).url, url'[d], now')
              /\ referer'[d] /= <<>> =>
                    ExpansionOf(Last(sent'[d]).referer, referer'[d], now')
              /\ request'[d].url = Last(sent'[d]).url
              /\ request'[d].referer = Last(sent'[d]).referer]_vars

C13_Witness ==
    /\ magicVars[1] /\ calls[1] = 3 /\ inflight[1] = 1 /\ referer[1] /= <<>>
    /\ sent[1][3].url /= sent[1][2].url /\ sent[1][2].url /= sent[1][1].url
    /\ sent[1][3].referer /= sent[1][2].referer
    /\ sent[1][1].url /= url[1]

(***************************************************************************)
(* Vocabulary of the decoding properties                                   *)
(***************************************************************************)
\* makeRequest has run
Decoding == dpc \in {"Returned", "Threw", "Resolved"}

NoResponseType == options.responseType = <<"void 0">>

NoResponseCharset == options.responseCharset = <<"void 0">>

EmptyString == [kind |-> "string", s |-> <<>>, enc |-> ""]

\* C14: when no responseType is requested, makeRequest returns a Response
\* and never throws, whatever the body, the response headers and the
\* behaviour of the charset detector, of iconv and of the parsers.
C14_AutoDetectNeverThrows ==
    (Decoding /\ NoResponseType) => (dpc /= "Threw" /\ fetched.how = "return")

\* C15: with responseType "text" and a zero-length body, makeRequest
\* returns type text and data "" and has called no charset detector,
\* whether or not responseCharset or the classifier gives a charset.
C15_EmptyTextSkipsDetection ==
    (Decoding /\ options.responseType = <<"text">> /\ res.data.s = <<>>) =>
        /\ fetched.how = "return"
        /\ fetched.type = <<"text">>
        /\ fetched.data = EmptyString
        /\ detectorCalls = <<>>

\* JSON-serializable values with their JSON.stringify text
RoundTripCases ==
    {[value |-> [kind |-> "object", s |-> <<"{\"a\":1}">>, enc |-> ""],
      text |-> <<"{\"a\":1}">>],
     [value |-> [kind |-> "array", s |-> <<"[1,2]">>, enc |-> ""],
      text |-> <<"[1,2]">>],
     [value |-> [kind |-> "number", s |-> <<"123">>, enc |-> ""],
      text |-> <<"123">>],
     [value |-> [kind |-> "boolean", s |-> <<"true">>, enc |-> ""],
      text |-> <<"true">>],
     [value |-> [kind |-> "null", s |-> <<"null">>, enc |-> ""],
      text |-> <<"null">>],
     [value |-> [kind |-> "string", s |-> <<"hello">>, enc |-> ""],
      text |-> <<"\"", "hello", "\"">>],
     [value |-> [kind |-> "string", s |-> <<" ", "a", " ">>, enc |-> ""],
      text |-> <<"\"", " ", "a", " ", "\"">>],
     [value |-> [kind |-> "string", s |-> <<"{\"a\":1}">>, enc |-> ""],
      text |-> <<"\"", "{\\\"a\\\":1}", "\"">>]}

JsonAnswer ==
    res.headers = <<[name |-> "content-type", value |->
        <<"application", "/", "json", ";", " ", "charset", "=", "utf-8">>]>>

AcceptsJson ==
    \E i \in 1..Len(options.headers) :
        /\ options.headers[i].name \in {"accept", "Accept"}
        /\ options.headers[i].value = <<"application", "/", "json">>

\* C16: for every JSON-serializable value, a call of fetch that requests no
\* responseType and no responseCharset and accepts json, answered with
\* content-type json and the bytes of the value's JSON text, resolves with
\* type json and data equal to the value.
C16_JsonRoundTrip ==
    \A c \in RoundTripCases :
        (/\ dpc = "Resolved" /\ NoResponseType /\ NoResponseCharset
         /\ JsonAnswer /\ AcceptsJson
         /\ res.data = [kind |-> "buffer", s |-> c.text, enc |-> "utf8"]) =>
            /\ fetched.type = <<"json">>
            /\ fetched.data = c.value

\* C17: the Response makeRequest returns and the Response fetch resolves
\* with have type text, json or buffer, for every responseType,
\* content-type, accept header, charset and body.
C17_TypeIsTextJsonBuffer ==
    dpc \in {"Returned", "Resolved"} =>
        fetched.type \in {<<"text">>, <<"json">>, <<"buffer">>}

C17_Witness ==
    /\ dpc = "Resolved" /\ NoResponseType
    /\ resInfo.type = <<"html">> /\ res.data.s /= <<>>
    /\ fetched.type = <<"text">>

\* the part of str before the first chunk in stops; str when there is none
UpTo(str, stops) ==
    IF \E i \in 1..Len(str) : str[i] \in stops
    THEN SubSeq(str, 1, (CHOOSE i \in 1..Len(str) :
                            str[i] \in stops /\ \A j \in 1..(i - 1) : str[j] \notin stops) - 1)
    ELSE str

\* the part of str after the first chunk c
After(str, c) == SubSeq(str, Len(UpTo(str, {c})) + 2, Len(str))

\* resInfo describes the media type `value`: what precedes "/", what
\* follows it up to ";", and the charset parameter when there is one
Describes(value) ==
    /\ resInfo.prefix = UpTo(value, {"/"})
    /\ resInfo.type = UpTo(After(value, "/"), {";"})
    /\ (\E i \in 1..(Len(value) - 2) : value[i] = "charset" /\ value[i + 1] = "=") =>
          resInfo.charset = <<value[Len(value)]>>

HeaderNamed(headers, names) ==
    {i \in 1..Len(headers) : headers[i].name \in names}

\* C18: the classifier describes the response's content-type header; when
\* the response has none, the first comma-separated value of the request's
\* accept header; when there is neither, text/plain with charset UTF-8.
C18_ClassifierSource ==
    dpc = "Classified" =>
        LET ct == HeaderNamed(res.headers, {"content-type"})
            anyct == HeaderNamed(res.headers, {"content-type", "Content-Type"})
            accept == HeaderNamed(options.headers, {"accept", "Accept"})
        IN  /\ ct /= {} => \A i \in ct : Describes(res.headers[i].value)
            /\ (anyct = {} /\ accept /= {}) =>
                  \A i \in accept : Describes(UpTo(options.headers[i].value, {","}))
            /\ (anyct = {} /\ accept = {}) =>
                  resInfo = [prefix |-> <<"text">>, type |-> <<"plain">>,
                             charset |-> <<"UTF-8">>]

C18_Witness ==
    /\ dpc = "Classified" /\ res.headers = <<>>
    /\ options.headers = <<[name |-> "accept", value |->
          <<"application", "/", "json", ",", " ", "text", "/", "plain">>]>>
    /\ resInfo = [prefix |-> <<"application">>, type |-> <<"json">>,
                  charset |-> <<"void 0">>]

\* C19: the classifier's descriptor is the one it gives for the same
\* headers with their names in lower case, for every casing of the
\* content-type key of the response and of the accept key of the request.
C19_HeaderNameCaseInsensitive ==
    dpc = "Classified" =>
        resInfo = resolveContentType(lowerHeaders(res.headers),
                                     lowerHeaders(options.headers))

ResolvedCharset ==
    IF options.responseCharset \notin {<<"void 0">>, <<>>} THEN options.responseCharset
    ELSE IF resInfo.charset \notin {<<"void 0">>, <<>>} THEN resInfo.charset
    ELSE env.detector.encoding

CharsetResolves == ResolvedCharset \notin {<<"void 0">>, <<>>}

\* the encoding names iconv knows, among those that occur
DecoderKnows == ResolvedCharset \in {<<"utf-8">>, <<"UTF-8">>, <<"gbk">>}

\* the body is JSON text (XML text when the classified type is xml)
BodyParses ==
    IF resInfo.type = <<"xml">>
    THEN res.data.s = <<"<r><foo>Hello</foo></r>">>
    ELSE res.data.s \in {c.text : c \in RoundTripCases}
                           \cup {<<" ", "{\"a\":1}", "\n">>}

AutoDetected ==
    dpc = "Returned" /\ NoResponseType /\ res.data.s /= <<>> /\ CharsetResolves

TextPrefix == resInfo.prefix \in {<<"text">>, <<"application">>, <<"*">>}

RawBuffer == fetched.type = <<"buffer">> /\ fetched.data = res.data

\* C21 (as claimed): in auto-detect mode, for a non-empty body whose charset
\* resolves: with classified prefix text, application or *, makeRequest
\* returns type json when the classified type is json or xml and the body
\* parses, and type text for every other classified type; with any other
\* prefix it returns type buffer with the raw bytes.
C21_Original_AutoDetectTypes ==
    AutoDetected =>
        IF TextPrefix
        THEN /\ (resInfo.type \in {<<"json">>, <<"xml">>} /\ BodyParses) =>
                    fetched.type = <<"json">>
             /\ resInfo.type \notin {<<"json">>, <<"xml">>} =>
                    fetched.type = <<"text">>
        ELSE RawBuffer

\* C21 (amended): in auto-detect mode, for a non-empty body whose charset
\* resolves: with classified prefix text, application or *, a classified
\* type other than octet-stream and a charset iconv knows, makeRequest
\* returns type json when the classified type is json or xml and the body
\* parses (XML giving an object), type buffer with the raw bytes when it is
\* json or xml and the body does not parse, and type text with the decoded
\* string for every other classified type; with classified type
\* octet-stream, a charset iconv does not know or any other prefix it
\* returns type buffer with the raw bytes.
C21_AutoDetectTypes ==
    AutoDetected =>
        IF TextPrefix /\ resInfo.type /= <<"octet-stream">> /\ DecoderKnows
        THEN IF resInfo.type \in {<<"json">>, <<"xml">>}
             THEN IF BodyParses
                  THEN /\ fetched.type = <<"json">>
                       /\ fetched.data.kind /= "buffer"
                       /\ resInfo.type = <<"xml">> => fetched.data.kind = "object"
                  ELSE RawBuffer
             ELSE /\ fetched.type = <<"text">>
                  /\ fetched.data.kind = "string"
                  /\ res.data.enc = "utf8" => fetched.data.s = res.data.s
        ELSE RawBuffer

C21_Witness ==
    /\ AutoDetected /\ TextPrefix /\ DecoderKnows
    /\ resInfo.type = <<"xml">> /\ BodyParses
    /\ fetched.type = <<"json">> /\ fetched.data.kind = "object"

(***************************************************************************)
(* Vocabulary of the proxy properties                                      *)
(***************************************************************************)
\* attempt a has gone through proxy selection and has not ended
Selected(a) == proxied[a].pc \in {"Awaiting", "Threw"}

ViaProxy(a) == proxied[a].proxy.form \in {"string", "object"}

\* the cache key of a proxy: scheme, host, ":", port
KeyOf(proxy) ==
    <<IF proxy.protocol = "https:" THEN "https://" ELSE "http://",
      proxy.host, ":", proxy.port>>

\* C22: an attempt whose proxy is given as a URL string or as an object
\* reaches the axios call, with a proxy agent made for that proxy's
\* protocol, host and port; proxy selection does not throw.
C22_ProxyFormsUseProxyAgent ==
    \A a \in AttemptIds :
        (Selected(a) /\ ViaProxy(a)) =>
            /\ proxied[a].pc = "Awaiting"
            /\ proxied[a].agent.id >= 1
            /\ proxied[a].agent.key = KeyOf(proxied[a].proxy)
            /\ proxied[a].agent.host = proxied[a].proxy.host
            /\ proxied[a].agent.port = proxied[a].proxy.port

\* C23: in every interleaving of attempts on one Fetcher, an entry of the
\* proxy agent cache is never removed or replaced, an agent is created only
\* for a proxy URL that has no entry (so at most one per URL), and every
\* attempt through a proxy URL uses the agent cached for that URL.
C23_OneAgentPerProxyUrl ==
    [][/\ \A u \in DOMAIN proxyAgents :
              u \in DOMAIN proxyAgents' /\ proxyAgents'[u] = proxyAgents[u]
       /\ Len(createdAgents') > Len(createdAgents) =>
              /\ Len(createdAgents') = Len(createdAgents) + 1
              /\ createdAgents'[Len(createdAgents')].key \notin DOMAIN proxyAgents
       /\ \A i, j \in 1..Len(createdAgents') :
              createdAgents'[i].key = createdAgents'[j].key => i = j
       /\ \A a \in AttemptIds :
              (proxied'[a].pc = "Awaiting" /\ proxied'[a].proxy.form = "object") =>
                  /\ KeyOf(proxied'[a].proxy) \in DOMAIN proxyAgents'
                  /\ proxied'[a].agent = proxyAgents'[KeyOf(proxied'[a].proxy)]
                  /\ \E i \in 1..Len(createdAgents') :
                        createdAgents'[i] = proxied'[a].agent]_vars

C23_Witness ==
    /\ proxied[1].pc = "Awaiting" /\ proxied[2].pc = "Awaiting"
    /\ proxied[1].proxy.form = "object" /\ proxied[2].proxy.form = "object"
    /\ proxied[1].proxy /= proxied[2].proxy
    /\ proxied[1].agent = proxied[2].agent
    /\ Len(createdAgents) = 2

\* the transport returned a Response
ResponseResult(result) == result.how = "return" /\ result.value.kind = "response"

\* C24: when the attempt with index i of a dispatch returns a Response,
\* another attempt is scheduled if and only if the Response is not ok,
\* i < retries and its status is one of 408, 409, 425, 500, 502, 503, 504;
\* otherwise the dispatch resolves at once with that Response.
C24_RetryIffRetryableStatus ==
    [][\A d \in DispatchIds :
          (Len(hist'[d]) = Len(hist[d]) + 1 /\ ResponseResult(Last(hist'[d]))) =>
              LET rsp == Last(hist'[d]).value
                  i == Len(hist[d])
              IN  IF /\ ~rsp.ok
                     /\ i < request[d].retries
                     /\ rsp.status \in {408, 409, 425, 500, 502, 503, 504}
                  THEN /\ pc'[d] = "WaitingBackoff"
                       /\ Len(delays'[d]) = Len(delays[d]) + 1
                       /\ tick'[d].timeoutID_ /= -1
                       /\ settlements'[d] = <<>>
                  ELSE /\ pc'[d] = "Succeeded"
                       /\ delays'[d] = delays[d]
                       /\ tick'[d].timeoutID_ = -1
                       /\ settlements'[d] = <<[call |-> "resolve", value |-> rsp]>>]_vars

C24_Witness ==
    /\ request[1].retries = 2 /\ Len(hist[1]) = 2 /\ pc[1] = "Succeeded"
    /\ hist[1][1] = [how |-> "return", value |->
          [kind |-> "response", ok |-> FALSE, status |-> 503, text |-> {},
           isAxiosError |-> FALSE]]
    /\ hist[1][2] = [how |-> "return", value |->
          [kind |-> "response", ok |-> FALSE, status |-> 404, text |-> {},
           isAxiosError |-> FALSE]]

\* the transport threw an error that matches neither signature
OtherErrorResult(result) ==
    ThrewError(result) /\ ~HangUpResult(result) /\ ~UnretryableResult(result)

\* C25: a dispatch with retries = N whose transport threw, on every
\* attempt, an error matching neither the hang-up nor the unretryable
\* signature never exceeds N+1 transport invocations, and when it stops it
\* has made exactly N+1 and has rejected with the error of the last attempt.
C25_OtherErrorsInvokeNPlus1 ==
    \A d \in DispatchIds :
        (Started(d) /\ AllOf(hist[d], OtherErrorResult)) =>
            /\ calls[d] <= request[d].retries + 1
            /\ ~Stopped(d) => settlements[d] = <<>>
            /\ Stopped(d) =>
                  /\ calls[d] = request[d].retries + 1
                  /\ pc[d] = "Failed"
                  /\ settlements[d] =
                        <<[call |-> "reject", value |-> Last(hist[d]).value]>>

C25_Witness ==
    /\ request[1].retries = 2 /\ pc[1] = "Failed" /\ calls[1] = 3
    /\ AllOf(hist[1], OtherErrorResult)

\* C26: the k-th delay a dispatch schedules, the one before its attempt k
\* (k >= 1), is min(1000 * 2^(k-1), 5000) milliseconds, and the timer waits
\* exactly that long before attempt k; each dispatch starts its own
\* sequence from 1000.
C26_DelaysDoubleUpTo5000 ==
    [][\A d \in DispatchIds :
          /\ \A k \in 1..Len(delays'[d]) :
                delays'[d][k] = IF 1000 * 2^(k - 1) < 5000
                                THEN 1000 * 2^(k - 1) ELSE 5000
          /\ (calls'[d] > calls[d] /\ calls[d] >= 1) =>
                /\ Len(delays[d]) = calls[d]
                /\ now' - now = delays[d][calls[d]]]_vars

C26_Witness ==
    /\ delays[1] = <<1000, 2000, 4000, 5000, 5000>>
    /\ calls[1] = 6
    /\ delays[2] = <<1000>>
    /\ calls[2] = 2

ForcedTextOrJson == options.responseType \in {<<"text">>, <<"json">>}

\* C27: with responseType text or json and a non-empty body, when no
\* charset resolves, or iconv does not know the charset, or (for json) the
\* body does not parse as JSON (as XML when the classified type is xml),
\* makeRequest throws an error and returns no Response; the error is a
\* TypeError saying the data cannot be decoded unless a charset detector
\* threw its own.  What makeRequest returns in this mode has the requested
\* type, never buffer.
C27_ForcedFailureThrows ==
    (Decoding /\ ForcedTextOrJson /\ res.data.s /= <<>>) =>
        /\ (\/ ~CharsetResolves
            \/ ~DecoderKnows
            \/ options.responseType = <<"json">> /\ ~BodyParses) =>
              /\ dpc = "Threw"
              /\ fetched.how = "throw"
              /\ fetched.data.kind = "error"
              /\ ~(detectorCalls /= <<>> /\ env.detector.how = "throw") =>
                    fetched.data.s[1] \in
                        {"Cannot decode the data by charset ",
                         "Cannot decode the data as ",
                         "Cannot decode the data '"}
        /\ dpc = "Returned" =>
              /\ fetched.type = options.responseType
              /\ fetched.data.kind /= "buffer"

C27_Witness ==
    /\ dpc = "Threw" /\ options.responseType = <<"json">>
    /\ CharsetResolves /\ DecoderKnows /\ ~BodyParses
    /\ res.data.s = <<"{\"a\":">>
    /\ fetched.data.s[1] = "Cannot decode the data '"

\* the header value the classifier works on: the response's content-type,
\* else the first comma-separated value of the request's accept header,
\* else the default
ClassifiedValue ==
    LET ct == HeaderNamed(res.headers, {"content-type"})
        accept == HeaderNamed(options.headers, {"accept", "Accept"})
    IN  IF ct /= {} THEN res.headers[CHOOSE i \in ct : TRUE].value
        ELSE IF accept /= {}
        THEN UpTo(options.headers[CHOOSE i \in accept : TRUE].value, {","})
        ELSE <<"text", "/", "plain", ";", " ", "charset", "=", "UTF-8">>

CharsetParameter(value) ==
    {value[i + 2] : i \in {j \in 1..(Len(value) - 2) :
                              value[j] = "charset" /\ value[j + 1] = "="}}

\* C28: the classifier's charset is defined exactly when the value it works
\* on (the lower-case content-type header of the response, else the first
\* accept value, else the default) carries a charset= parameter, and is then
\* that parameter's value; a value whose only parameters are others, such
\* as q=0.9 or boundary=x, leaves the charset undefined.
C28_CharsetIffCharsetParameter ==
    (/\ dpc = "Classified"
     /\ HeaderNamed(res.headers, {"Content-Type"}) = {}) =>
        IF CharsetParameter(ClassifiedValue) /= {}
        THEN \E c \in CharsetParameter(ClassifiedValue) : resInfo.charset = <<c>>
        ELSE resInfo.charset = <<"void 0">>

SameEndpoint(p, q) ==
    /\ p.protocol = q.protocol /\ p.host = q.host /\ p.port = q.port

\* C29: every attempt sent through a proxy uses an agent made with the
\* credentials of its own request's proxy, and two attempts whose proxies
\* have the same protocol, host and port but different credentials do not
\* use the same cached agent.
C29_AgentCarriesOwnCredentials ==
    /\ \A a \in AttemptIds :
          (proxied[a].pc = "Awaiting" /\ ViaProxy(a)) =>
              proxied[a].agent.auth = proxied[a].proxy.auth
    /\ \A a, b \in AttemptIds :
          (/\ proxied[a].pc = "Awaiting" /\ ViaProxy(a)
           /\ proxied[b].pc = "Awaiting" /\ ViaProxy(b)
           /\ SameEndpoint(proxied[a].proxy, proxied[b].proxy)
           /\ proxied[a].proxy.auth /= proxied[b].proxy.auth) =>
              proxied[a].agent.id /= proxied[b].agent.id

====
